---- MODULE Spec2Model ----
(***************************************************************************)
(* The `valueset` command of the ComplyLight CLI: a pool of cooperative    *)
(* workers (promise chains of next()) that fetch, cache, merge and write   *)
(* VSAC value sets.  One action of the model is one run-to-completion turn *)
(* of the JavaScript event loop: from the event that resumes a worker to   *)
(* the next await at which it suspends.                                    *)
(***************************************************************************)
EXTENDS Integers, Sequences, FiniteSets, TLC

\* ---------------------------------------------------------------- bounds
MaxJobs == 2          \* longest list of identifiers given to a run
MaxConcurrency == 2   \* largest --concurrency option
MaxRetry == 2         \* largest --retry option
MaxTotal == 2         \* largest number of codes of a value set served
MaxSize == 6          \* largest run: identifiers + concurrency + retries + codes + upload
MaxPages == 2         \* longest list of pages given to mergeExpansionPages alone
MaxIdLen == 4         \* longest identifier given to normalizeVsacId alone (without prefix)
MaxLimit == 6         \* largest --concurrency given to the starters alone
MaxCount == 5         \* longest list of identifiers given to the starters alone

Max(a, b) == IF a >= b THEN a ELSE b
Min(a, b) == IF a <= b THEN a ELSE b

\* ------------------------------------------------ identifiers (strings)
\* A string is a sequence of one-character strings.
IsDigit(c) == c \in {"0", "1", "2", "3", "4", "5", "6", "7", "8", "9"}
IsOidChar(c) == IsDigit(c) \/ c = "."

\* First index >= i of s that is not a digit (Len(s)+1 when there is none).
RECURSIVE DigitRunEnd(_, _)
DigitRunEnd(s, i) ==
    IF i <= Len(s) /\ IsDigit(s[i]) THEN DigitRunEnd(s, i + 1) ELSE i

\* First index >= i of s that is neither a digit nor a dot.
RECURSIVE OidRunEnd(_, _)
OidRunEnd(s, i) ==
    IF i <= Len(s) /\ IsOidChar(s[i]) THEN OidRunEnd(s, i + 1) ELSE i

\* /([0-9]+\.[0-9.]+)/ matches at i: a run of digits, a dot, and at least one
\* more digit or dot.
MatchesAt(s, i) ==
    /\ i <= Len(s)
    /\ IsDigit(s[i])
    /\ LET j == DigitRunEnd(s, i)
       IN  j + 1 <= Len(s) /\ s[j] = "." /\ IsOidChar(s[j + 1])

HasOid(s) == \E i \in 1..Len(s) : MatchesAt(s, i)

\* NoOid stands for the throw of normalizeVsacId.
NoOid == <<>>

\* Faulty variant of normalizeVsacId: the pattern is anchored at the start.
normalizeAnchored(id) ==
    IF ~MatchesAt(id, 1) THEN NoOid
    ELSE SubSeq(id, 1, OidRunEnd(id, DigitRunEnd(id, 1) + 1) - 1)

\* normalizeVsacId: the leftmost, greedy match.
normalizeVsacId(id) ==
    IF ~HasOid(id) THEN NoOid
    ELSE LET i == CHOOSE k \in 1..Len(id) :
                     MatchesAt(id, k) /\ \A m \in 1..(k - 1) : ~MatchesAt(id, m)
             e == OidRunEnd(id, DigitRunEnd(id, i) + 1)
         IN  SubSeq(id, i, e - 1)

BareId == <<"1", ".", "2">>
UrnId == <<"u", "r", "n", ":", "o", "i", "d", ":", "1", ".", "2">>
BadId == <<"x">>
IdPool == {BareId, UrnId, BadId}

\* ------------------------------------------------------------ resources
\* A ValueSet resource: version, expansion.identifier, expansion.contains,
\* expansion.total ("" and 0 stand for an absent field).
NullRes == [resourceType |-> "null", id |-> <<>>, version |-> "",
            identifier |-> "", contains |-> <<>>, total |-> 0]
Resource(oid, v, c, t) ==
    [resourceType |-> "ValueSet", id |-> oid, version |-> v,
     identifier |-> "", contains |-> c, total |-> t]

\* What the vocabulary service may answer to a page request at an offset, for
\* a value set of n codes (the codes are numbered from 0): a page of no code or
\* of the code at the offset, that declares the total n or none.
ContainsPool(offset) == {<<>>, <<offset>>}
ServerPages(n, offset) ==
    {Resource(<<>>, "", c, t) : c \in ContainsPool(offset), t \in {0, n}}
\* A definition carries a version or none.
ServerDefinitions == {Resource(<<>>, v, <<>>, 0) : v \in {"", "20240101"}}

\* --------------------------------------------------------------- errors
\* An error is its message and, for a transport error with a response, the
\* response's status and body.  status 0: no response.  The body is described
\* by its `issue` member: "none" (no body), "absent" (no issue member),
\* "array" (a list of issues), "scalar" (present, not a list).  thrown tells
\* an error from the absence of one.
Msg(text, n) == [text |-> text, n |-> n]
NoMsg == Msg("", 0)
Err(msg, status, data) ==
    [message |-> msg, status |-> status, data |-> data, thrown |-> TRUE]
NoErr == [message |-> NoMsg, status |-> 0, data |-> "none", thrown |-> FALSE]
HttpError(status, data) == Err(Msg("Request failed with status code", status), status, data)
NetworkError == Err(Msg("Network Error", 0), 0, "none")
PlainError(text, n) == Err(Msg(text, n), 0, "none")
\* A rejection without a response whose message is empty.
BlankError == Err(NoMsg, 0, "none")

TransportErrors ==
    {NetworkError, BlankError, HttpError(429, "none"), HttpError(500, "none")}
        \cup {HttpError(404, d) : d \in {"array", "scalar"}}

\* ------------------------------------------------------------- the run
VARIABLES
    ids,        \* the <ids...> argument: the identifiers, in input order
    opts,       \* the parsed options of the command
    codes,      \* the number of codes of the value sets the service holds
    phase,      \* "start", "sched" (workers running), "upload", "summary",
                \* "fatal" (process.exit(1)); "none": no run of the command
    idx,        \* next(): the shared cursor
    running,    \* next(): jobs claimed and not finished
    completed,  \* next(): jobs finished
    results,    \* results[i + 1] is the slot of input position i (NoResult: empty)
    cache,      \* the cache directory: key -> page
    files,      \* the output directory: file name -> content
    wk,         \* the local variables of each worker (a chain of next() calls)
    micro,      \* workers whose continuation waits in the microtask queue
    toUpload,   \* postValueSetsToHapi: the resources to submit
    summary,    \* the counts printed at the end (NoSummary: nothing printed)
    claimed,    \* history: how many times each input position was claimed
    writes,     \* history: how many times each cache file was written
    net,        \* history: the kinds of network calls made so far
    raised,     \* history: the input positions whose pipeline raised an error
    posts,      \* history: the submissions made to the FHIR server, answered
    reqs,       \* history: the page requests that ended in the last turn
    jobs,       \* history: the jobs that ended in the last turn
    mpages,     \* mergeExpansionPages alone: the argument
    mresult,    \* mergeExpansionPages alone: the outcome
    nid,        \* normalizeVsacId alone: the argument
    nresult,    \* normalizeVsacId alone: the outcome
    cval,       \* the starters alone: the --concurrency option
    cjobs,      \* the starters alone: the number of identifiers
    cresult,    \* the starters alone: the outcome
    pfile,      \* two runs, one cache: the chunks each cache file holds
    psize,      \* two runs, one cache: the chunks of each page
    prun,       \* two runs, one cache: where each run is
    registry,   \* the module service: the registry, module id -> module
    moduleFiles,\* the module service: the provider's map, module id -> file
    dir,        \* the module service: the modules directory, file -> document
    reply,      \* the module service: the last request and its response
    kcache,     \* fetches over one cache: the cache directory, key -> page
    kfetch      \* fetches over one cache: the last fetch and what it returned

runVars == <<ids, opts, codes, phase, idx, running, completed, results, cache, files,
             wk, micro, toUpload, summary, claimed, writes, net, raised, posts,
             reqs, jobs>>
mergeVars == <<mpages, mresult>>
normVars == <<nid, nresult>>
countVars == <<cval, cjobs, cresult>>
putVars == <<pfile, psize, prun>>
apiVars == <<registry, moduleFiles, dir, reply>>
keyVars == <<kcache, kfetch>>
aloneVars == <<mergeVars, normVars, countVars, putVars, apiVars, keyVars>>
exceptMerge == <<runVars, normVars, countVars, putVars, apiVars, keyVars>>
exceptNorm == <<runVars, mergeVars, countVars, putVars, apiVars, keyVars>>
exceptCount == <<runVars, mergeVars, normVars, putVars, apiVars, keyVars>>
exceptPut == <<runVars, mergeVars, normVars, countVars, apiVars, keyVars>>
exceptApi == <<runVars, mergeVars, normVars, countVars, putVars, keyVars>>
exceptKey == <<runVars, mergeVars, normVars, countVars, putVars, apiVars>>
vars == <<runVars, aloneVars>>

Modes == {"definition", "expansion", "both"}
Retryable(status) == status >= 500 \/ status = 429

BackoffBase == 1000
RECURSIVE Pow2(_)
Pow2(n) == IF n <= 0 THEN 1 ELSE 2 * Pow2(n - 1)

\* The result slot of a job before anything was written to it.
NoResult == [set |-> FALSE, oid |-> <<>>, defRes |-> NullRes, expRes |-> NullRes,
             version |-> "", error |-> NoMsg]

\* -------------------------------------------------- the helper functions
\* opts.version || 'latest' / opts.version || 'unknown'
OrElse(s, d) == IF s # "" THEN s ELSE d

\* The cache file name of a page: vsac-<oid>-<version or latest>-page-<offset>.json
CacheKey(oid, version, offset) == <<oid, OrElse(version, "latest"), offset>>

\* Faulty variant of CacheExists: the lookup never finds the file.
CacheNeverExists(c, key) == FALSE

\* fs.existsSync(cacheFile)
CacheExists(c, key) == key \in DOMAIN c

deriveVsacVersion(resource) ==
    IF resource.version # "" THEN resource.version
    ELSE IF resource.identifier # "" THEN resource.identifier
    ELSE "unknown"

RECURSIVE FlatContains(_)
FlatContains(pages) ==
    IF pages = <<>> THEN <<>>
    ELSE Head(pages).contains \o FlatContains(Tail(pages))

\* line 686: mergeExpansionPages throws 'No expansion pages to merge.'
MergeThrows(pages) == pages = <<>>

\* Faulty variant of mergeExpansionPages: the last page is the base.
mergeIntoLastPage(pages) ==
    [pages[Len(pages)] EXCEPT !.contains = FlatContains(pages)]

\* lines 687-689: mergeExpansionPages of a non-empty list: a copy of the first
\* page with the items of all pages.
mergeExpansionPages(pages) ==
    [pages[1] EXCEPT !.contains = FlatContains(pages)]

\* lines 687-688: base and base.expansion are copies and flatMap builds a new
\* list, so the pages passed in are what they were.
PagesAfterMerge(pages) == pages

\* writeValueSetFiles: ValueSet-<oid>-<version>-<mode>.json, overwritten.
FileName(oid, version, mode) == <<oid, OrElse(version, "unknown"), mode>>
writeValueSetFiles(fs, oid, version, data, mode) ==
    (FileName(oid, version, mode) :> data) @@ fs

\* operationOutcomeToMessage throws when oo.issue is neither absent nor a list:
\* (oo.issue || []).map is then not a function.
OutcomeThrows(data) == data = "scalar"

\* The expression logged by the catch block of next() throws.
HandlerThrows(e) == e.data # "none" /\ OutcomeThrows(e.data)

\* ------------------------------------------------ one worker, one turn
\* The locals of next() and of the fetchValueSetExpansion call it awaits.  lbl
\* is the place the worker is at; req* describe the page request under way,
\* defCalls counts the calls made for the definition, stage is the stage of the
\* pipeline that raised err.
FreshLocals ==
    [lbl |-> "claim", myIdx |-> 0, oid |-> <<>>, defRes |-> NullRes,
     defCalls |-> 0, stage |-> "none",
     versionForName |-> "", offset |-> 0, pages |-> <<>>, got |-> 0, tries |-> 0,
     expRes |-> NullRes, page |-> NullRes, err |-> NoErr,
     reqHit |-> FALSE, reqCalls |-> 0, reqDelays |-> <<>>, reqLast |-> 0,
     reqTries |-> 0]

\* The places where a worker waits for an event, or has ended.
Suspended == {"def_get", "exp_get", "exp_sleep", "exp_ret", "done", "crashed"}

\* A machine is the shared state of the run together with the locals l of the
\* worker that has the processor.
Machine(l) ==
    [idx |-> idx, running |-> running, completed |-> completed,
     results |-> results, cache |-> cache, files |-> files, claimed |-> claimed,
     writes |-> writes, net |-> net, raised |-> raised,
     reqs |-> <<>>, jobs |-> <<>>, l |-> l]

\* History: a page request ended ("ok", "error" or "exhausted").  hit: the cache
\* file existed at the lookup; calls: the network calls made for the request;
\* delays: the backoff delays taken; last: the status of the last failed call;
\* before: the value of tries when the request began; page: the page obtained;
\* err: what was thrown.
LogRequest(m, out) ==
    LET l == m.l
    IN  Append(m.reqs,
               [job |-> l.myIdx, key |-> CacheKey(l.oid, opts.version, l.offset),
                hit |-> l.reqHit, calls |-> l.reqCalls, delays |-> l.reqDelays,
                last |-> l.reqLast, before |-> l.reqTries, page |-> l.page,
                err |-> l.err, out |-> out])

\* History: a job left the try block of next(): with the error err (NoErr: none)
\* raised by stage, after defCalls calls for the definition and with pages
\* pages fetched; threw: the catch block itself threw.
LogJob(m, threw) ==
    Append(m.jobs, [job |-> m.l.myIdx, err |-> m.l.err, threw |-> threw,
                    stage |-> m.l.stage, defCalls |-> m.l.defCalls,
                    pages |-> Len(m.l.pages)])

\* Faulty variant of StepClaim: a lost update of the cursor; a worker that claims
\* while another job is in flight takes the position claimed last.
StepClaimStale(m) ==
    IF m.idx >= Len(ids)
    THEN [m EXCEPT !.l.lbl = "done"]
    ELSE LET mine == IF m.running > 0 THEN m.idx - 1 ELSE m.idx
         IN  [m EXCEPT !.l = [FreshLocals EXCEPT !.lbl = "normalize", !.myIdx = mine],
                       !.idx = mine + 1,
                       !.running = m.running + 1,
                       !.claimed[mine + 1] = m.claimed[mine + 1] + 1]

\* lines 265-268: claim the job under the cursor.
StepClaim(m) ==
    IF m.idx >= Len(ids)
    THEN [m EXCEPT !.l.lbl = "done"]
    ELSE [m EXCEPT !.l = [FreshLocals EXCEPT !.lbl = "normalize", !.myIdx = m.idx],
                   !.idx = m.idx + 1,
                   !.running = m.running + 1,
                   !.claimed[m.idx + 1] = m.claimed[m.idx + 1] + 1]

\* line 270
StepNormalize(m) ==
    LET oid == normalizeVsacId(ids[m.l.myIdx + 1])
    IN  IF oid = NoOid
        THEN [m EXCEPT !.l.err = PlainError("Could not extract OID from", 0),
                       !.l.stage = "normalize",
                       !.l.lbl = "catch"]
        ELSE [m EXCEPT !.l.oid = oid, !.l.lbl = "def_stage"]

\* line 636: fetchValueSetDefinition calls client.get(url), once.
DefRequest(m) ==
    [m EXCEPT !.l.defCalls = m.l.defCalls + 1,
              !.net = m.net \cup {"definition"},
              !.l.lbl = "def_get"]

\* Faulty variant of StepDefStage: the definition is fetched in a dry run too.
StepDefStageLive(m) ==
    IF opts.mode \in {"definition", "both"}
    THEN DefRequest(m)
    ELSE [m EXCEPT !.l.lbl = "exp_stage"]

\* lines 272-273: the definition, a stub in a dry run.
StepDefStage(m) ==
    IF opts.mode \in {"definition", "both"}
    THEN IF opts.dryRun
         THEN [m EXCEPT !.l.defRes = Resource(m.l.oid, OrElse(opts.version, "unknown"), <<>>, 0),
                        !.l.lbl = "def_done"]
         ELSE DefRequest(m)
    ELSE [m EXCEPT !.l.lbl = "exp_stage"]

\* lines 274-275
StepDefDone(m) ==
    LET v == OrElse(deriveVsacVersion(m.l.defRes), OrElse(opts.version, "unknown"))
    IN  [m EXCEPT !.l.versionForName = v,
                  !.files = writeValueSetFiles(m.files, m.l.oid, v, m.l.defRes, "definition"),
                  !.l.lbl = "exp_stage"]

\* lines 277-278 and 641: the expansion, a stub page in a dry run.
StepExpStage(m) ==
    IF opts.mode \in {"expansion", "both"}
    THEN IF opts.dryRun
         THEN [m EXCEPT !.l.pages = <<Resource(m.l.oid, OrElse(opts.version, "unknown"), <<>>, 0)>>,
                        !.l.lbl = "exp_done"]
         ELSE [m EXCEPT !.l.offset = 0, !.l.pages = <<>>, !.l.got = 0, !.l.tries = 0,
                        !.l.lbl = "exp_loop"]
    ELSE [m EXCEPT !.l.lbl = "record"]

\* lines 643-652: the cache is looked up before the network is used.
StepExpLoop(m) ==
    LET key == CacheKey(m.l.oid, opts.version, m.l.offset)
        fresh == [m EXCEPT !.l.reqHit = (key \in DOMAIN m.cache), !.l.reqCalls = 0,
                           !.l.reqDelays = <<>>, !.l.reqLast = 0,
                           !.l.reqTries = m.l.tries, !.l.page = NullRes]
    IN  IF opts.cacheDir /\ CacheExists(m.cache, key)
        THEN [fresh EXCEPT !.l.page = m.cache[key], !.l.lbl = "exp_page"]
        ELSE IF ~opts.dryRun
        THEN [fresh EXCEPT !.l.lbl = "exp_try"]
        ELSE [fresh EXCEPT !.l.err = PlainError("No expansion page fetched.", 0),
                           !.l.lbl = "exp_ret"]

\* Faulty variant of StepExpTry: without a page the loop is left and nothing
\* is thrown.
StepExpTryNoThrow(m) ==
    IF m.l.tries < opts.retry
    THEN [m EXCEPT !.l.reqCalls = m.l.reqCalls + 1,
                   !.net = m.net \cup {"expansion"},
                   !.l.lbl = "exp_get"]
    ELSE [m EXCEPT !.reqs = LogRequest(m, "exhausted"), !.l.err = NoErr,
                   !.l.lbl = "exp_ret"]

\* lines 653-655 and 671: another attempt while tries < retry.
StepExpTry(m) ==
    IF m.l.tries < opts.retry
    THEN [m EXCEPT !.l.reqCalls = m.l.reqCalls + 1,
                   !.net = m.net \cup {"expansion"},
                   !.l.lbl = "exp_get"]
    ELSE LET failed == [m EXCEPT !.l.err = PlainError("Failed to fetch expansion after", opts.retry)]
         IN  [failed EXCEPT !.reqs = LogRequest(failed, "exhausted"), !.l.lbl = "exp_ret"]

\* Faulty variant of StepExpPage: the offset is not moved.
StepExpPageSameOffset(m) ==
    LET n == Len(m.l.page.contains)
        got == m.l.got + n
        total == m.l.page.total
        kept == [m EXCEPT !.l.pages = Append(m.l.pages, m.l.page),
                          !.l.got = got,
                          !.reqs = LogRequest(m, "ok")]
    IN  IF n = 0 \/ total = 0 \/ got >= total
        THEN [kept EXCEPT !.l.err = NoErr, !.l.lbl = "exp_ret"]
        ELSE [kept EXCEPT !.l.lbl = "exp_loop"]

\* Faulty variant of StepExpPage: the items of the earlier pages are not
\* counted against the total.
StepExpPageNoSum(m) ==
    LET n == Len(m.l.page.contains)
        total == m.l.page.total
        kept == [m EXCEPT !.l.pages = Append(m.l.pages, m.l.page),
                          !.l.got = n,
                          !.reqs = LogRequest(m, "ok")]
    IN  IF n = 0 \/ total = 0 \/ n >= total
        THEN [kept EXCEPT !.l.err = NoErr, !.l.lbl = "exp_ret"]
        ELSE [kept EXCEPT !.l.offset = m.l.offset + n, !.l.lbl = "exp_loop"]

\* lines 674-682: keep the page, then stop or move the offset.
StepExpPage(m) ==
    LET n == Len(m.l.page.contains)
        got == m.l.got + n
        total == m.l.page.total
        kept == [m EXCEPT !.l.pages = Append(m.l.pages, m.l.page),
                          !.l.got = got,
                          !.reqs = LogRequest(m, "ok")]
    IN  IF n = 0 \/ total = 0 \/ got >= total
        THEN [kept EXCEPT !.l.err = NoErr, !.l.lbl = "exp_ret"]
        ELSE [kept EXCEPT !.l.offset = m.l.offset + n, !.l.lbl = "exp_loop"]

\* line 278, after the await: the fetch returned its pages or threw.
StepExpAfter(m) ==
    IF m.l.err # NoErr THEN [m EXCEPT !.l.stage = "expansion", !.l.lbl = "catch"]
    ELSE [m EXCEPT !.l.lbl = "exp_done"]

\* lines 279-282: merge, name, write.
StepExpDone(m) ==
    IF MergeThrows(m.l.pages)
    THEN [m EXCEPT !.l.err = PlainError("No expansion pages to merge.", 0),
                   !.l.stage = "merge",
                   !.l.lbl = "catch"]
    ELSE LET merged == mergeExpansionPages(m.l.pages)
             v == OrElse(deriveVsacVersion(merged),
                         OrElse(m.l.versionForName, OrElse(opts.version, "unknown")))
         IN  [m EXCEPT !.l.versionForName = v,
                       !.files = writeValueSetFiles(m.files, m.l.oid, v, merged, "expanded"),
                       !.l.expRes = merged,
                       !.l.lbl = "record"]

\* Faulty variant of ResultSlot: results are stored in completion order.
ResultSlotByCompletion(myIdx) == completed + 1

\* line 284: the result goes to the slot of the job's own position.
ResultSlot(myIdx) == myIdx + 1
StepRecord(m) ==
    [m EXCEPT !.results[ResultSlot(m.l.myIdx)] =
                  [set |-> TRUE, oid |-> m.l.oid, defRes |-> m.l.defRes,
                   expRes |-> m.l.expRes, version |-> m.l.versionForName,
                   error |-> NoMsg],
              !.jobs = LogJob(m, FALSE),
              !.l.lbl = "job_end"]

\* lines 285-288: the catch block; the message it logs may itself throw, and
\* then nothing catches it: next() rejects.
StepCatch(m) ==
    IF HandlerThrows(m.l.err)
    THEN [m EXCEPT !.jobs = LogJob(m, TRUE),
                   !.raised = m.raised \cup {m.l.myIdx},
                   !.l.lbl = "crashed"]
    ELSE [m EXCEPT !.jobs = LogJob(m, FALSE),
                   !.raised = m.raised \cup {m.l.myIdx},
                   !.results[ResultSlot(m.l.myIdx)] =
                       [NoResult EXCEPT !.set = TRUE, !.oid = ids[m.l.myIdx + 1],
                                        !.error = m.l.err.message],
                   !.l.lbl = "job_end"]

\* Faulty variant of StepJobEnd: only the jobs without error are counted.
StepJobEndFailedUncounted(m) ==
    [m EXCEPT !.completed = IF m.l.err = NoErr THEN m.completed + 1 ELSE m.completed,
              !.running = m.running - 1,
              !.l.lbl = IF m.idx < Len(ids) THEN "claim" ELSE "done"]

\* lines 289-294: count the job, release the slot, go on with the next job.
StepJobEnd(m) ==
    [m EXCEPT !.completed = m.completed + 1,
              !.running = m.running - 1,
              !.l.lbl = IF m.idx < Len(ids) THEN "claim" ELSE "done"]

Step(m) ==
    CASE m.l.lbl = "claim" -> StepClaim(m)
      [] m.l.lbl = "normalize" -> StepNormalize(m)
      [] m.l.lbl = "def_stage" -> StepDefStage(m)
      [] m.l.lbl = "def_done" -> StepDefDone(m)
      [] m.l.lbl = "exp_stage" -> StepExpStage(m)
      [] m.l.lbl = "exp_loop" -> StepExpLoop(m)
      [] m.l.lbl = "exp_try" -> StepExpTry(m)
      [] m.l.lbl = "exp_page" -> StepExpPage(m)
      [] m.l.lbl = "exp_after" -> StepExpAfter(m)
      [] m.l.lbl = "exp_done" -> StepExpDone(m)
      [] m.l.lbl = "record" -> StepRecord(m)
      [] m.l.lbl = "catch" -> StepCatch(m)
      [] m.l.lbl = "job_end" -> StepJobEnd(m)

\* Run the worker until it awaits something or ends.
RECURSIVE Run(_)
Run(m) == IF m.l.lbl \in Suspended THEN m ELSE Run(Step(m))

\* Faulty variant of ExpResponse: the page is not written to the cache.
ExpResponseNoPut(m, resp) ==
    IF resp.ok
    THEN [m EXCEPT !.l.page = resp.data,
                   !.l.lbl = "exp_page"]
    ELSE IF Retryable(resp.err.status)
    THEN [m EXCEPT !.l.tries = m.l.tries + 1,
                   !.l.reqDelays = Append(m.l.reqDelays, BackoffBase * Pow2(m.l.tries + 1)),
                   !.l.reqLast = resp.err.status,
                   !.l.lbl = "exp_sleep"]
    ELSE LET failed == [m EXCEPT !.l.err = resp.err, !.l.reqLast = resp.err.status]
         IN  [failed EXCEPT !.reqs = LogRequest(failed, "error"), !.l.lbl = "exp_ret"]

\* lines 655-669: the answer to client.get(url) of a page.  A page is written
\* to the cache; 429 and 5xx count a try and wait; anything else is rethrown.
ExpResponse(m, resp) ==
    IF resp.ok
    THEN [m EXCEPT !.l.page = resp.data,
                   !.cache = IF opts.cacheDir
                             THEN (CacheKey(m.l.oid, opts.version, m.l.offset) :> resp.data) @@ m.cache
                             ELSE m.cache,
                   !.writes = IF opts.cacheDir
                              THEN LET k == CacheKey(m.l.oid, opts.version, m.l.offset)
                                   IN  (k :> (IF k \in DOMAIN m.writes THEN m.writes[k] ELSE 0) + 1)
                                           @@ m.writes
                              ELSE m.writes,
                   !.l.lbl = "exp_page"]
    ELSE IF Retryable(resp.err.status)
    THEN [m EXCEPT !.l.tries = m.l.tries + 1,
                   !.l.reqDelays = Append(m.l.reqDelays, BackoffBase * Pow2(m.l.tries + 1)),
                   !.l.reqLast = resp.err.status,
                   !.l.lbl = "exp_sleep"]
    ELSE LET failed == [m EXCEPT !.l.err = resp.err, !.l.reqLast = resp.err.status]
         IN  [failed EXCEPT !.reqs = LogRequest(failed, "error"), !.l.lbl = "exp_ret"]

\* lines 634-638 and 273: the answer to the definition request.
DefResponse(m, resp) ==
    IF resp.ok
    THEN [m EXCEPT !.l.defRes = resp.data, !.l.lbl = "def_done"]
    ELSE [m EXCEPT !.l.err = resp.err, !.l.stage = "definition", !.l.lbl = "catch"]

Ok(data) == [ok |-> TRUE, data |-> data, err |-> NoErr]
Failure(e) == [ok |-> FALSE, data |-> NullRes, err |-> e]
ExpResponses(offset) ==
    {Ok(p) : p \in ServerPages(codes, offset)} \cup {Failure(e) : e \in TransportErrors}
DefResponses == {Ok(p) : p \in ServerDefinitions} \cup {Failure(e) : e \in TransportErrors}

\* ---------------------------------------------------------- the actions
DefaultConcurrency == 4

\* A numeric option read with unary plus: NaN for a text that is no number,
\* or a number counted in halves (Halves(3) is 1.5).
NaN == [nan |-> TRUE, halves |-> 0]
Halves(h) == [nan |-> FALSE, halves |-> h]
Whole(c) == Halves(2 * c)

\* line 259: Math.max(1, +opts.concurrency || 4), in halves; 0 and NaN are
\* falsy.
EffectiveHalves(v) ==
    Max(2, IF v.nan \/ v.halves = 0 THEN 2 * DefaultConcurrency ELSE v.halves)

\* line 259 for an option that is a whole number.
EffectiveConcurrency(c) == EffectiveHalves(Whole(c)) \div 2

\* line 296: Math.min(concurrency, ids.length), in halves.
StarterHalves(v, n) == Min(EffectiveHalves(v), 2 * n)

\* line 296: Array(length) throws a RangeError for a length that is not a
\* whole number.
ArrayThrows(h) == h % 2 # 0

\* Faulty variant of Starters: one worker per identifier, whatever the limit.
StartersUnlimited == Len(ids)

\* line 296: the number of workers started.
Starters == Min(EffectiveConcurrency(opts.concurrency), Len(ids))

EmptyDir == [k \in {} |-> NullRes]

\* Nothing was printed; nothing was merged.
NoSummary == [printed |-> FALSE, processed |-> 0, downloaded |-> 0, errors |-> 0]
NoMerge == [done |-> FALSE, threw |-> FALSE, value |-> NullRes, arg |-> <<>>]
NoNorm == [done |-> FALSE, threw |-> FALSE, value |-> <<>>]

\* No function is being applied on its own.
NoMergeCall == mpages = <<>> /\ mresult = NoMerge
NoNormCall == nid = <<>> /\ nresult = NoNorm
NoCount == [done |-> FALSE, threw |-> FALSE, workers |-> 0]
NoCountCall == cval = NaN /\ cjobs = 0 /\ cresult = NoCount
NoPutCall == pfile = <<>> /\ psize = <<>> /\ prun = <<>>
NoApiCall == registry = <<>> /\ moduleFiles = <<>> /\ dir = <<>> /\ reply = <<>>
NoKeyCall == kcache = <<>> /\ kfetch = <<>>

RECURSIVE Lists(_, _)
Lists(S, n) ==
    IF n = 0 THEN {<<>>}
    ELSE {Append(q, x) : q \in Lists(S, n - 1), x \in S}

\* The options of the command; umlsKey: --umls-key or UMLS_API_KEY is set;
\* post: --post is given, and without it the upload options keep their defaults.
PostModes == {"expanded", "definition"}
Options ==
    {o \in [concurrency : 1..MaxConcurrency, retry : 0..MaxRetry, mode : Modes,
            version : {""}, cacheDir : {TRUE}, dryRun : BOOLEAN, umlsKey : BOOLEAN,
            post : BOOLEAN, postMode : PostModes, bundle : BOOLEAN] :
        ~o.post => (o.postMode = "expanded" /\ ~o.bundle)}

Init ==
    /\ ids \in UNION {Lists(IdPool, n) : n \in 1..MaxJobs}
    /\ opts \in Options
    /\ codes \in 1..MaxTotal
    /\ Len(ids) + opts.concurrency + opts.retry + codes + (IF opts.post THEN 1 ELSE 0)
           <= MaxSize
    /\ phase = "start"
    /\ idx = 0
    /\ running = 0
    /\ completed = 0
    /\ results = [i \in 1..Len(ids) |-> NoResult]
    /\ cache = EmptyDir
    /\ files = EmptyDir
    /\ wk = <<>>
    /\ micro = <<>>
    /\ toUpload = <<>>
    /\ summary = NoSummary
    /\ claimed = [i \in 1..Len(ids) |-> 0]
    /\ writes = [k \in {} |-> 0]
    /\ net = {}
    /\ raised = {}
    /\ posts = <<>>
    /\ reqs = <<>>
    /\ jobs = <<>>
    /\ NoMergeCall
    /\ NoNormCall
    /\ NoCountCall
    /\ NoPutCall
    /\ NoApiCall
    /\ NoKeyCall

\* The shared state after a turn that left the machine m.
Shared(m) ==
    /\ idx' = m.idx
    /\ running' = m.running
    /\ completed' = m.completed
    /\ results' = m.results
    /\ cache' = m.cache
    /\ files' = m.files
    /\ claimed' = m.claimed
    /\ writes' = m.writes
    /\ net' = m.net
    /\ raised' = m.raised
    /\ reqs' = m.reqs
    /\ jobs' = m.jobs

\* The turn of worker w ended in machine m: an uncaught throw rejects
\* Promise.all and the command exits (lines 311-314); a worker whose fetch
\* settled resumes from the microtask queue.
Commit(w, m, queue) ==
    /\ Shared(m)
    /\ wk' = [wk EXCEPT ![w] = m.l]
    /\ micro' = IF m.l.lbl = "exp_ret" THEN Append(queue, w) ELSE queue
    /\ phase' = IF m.l.lbl = "crashed" THEN "fatal" ELSE phase
    /\ UNCHANGED <<ids, opts, codes, toUpload, summary, posts, aloneVars>>

\* line 296: each starter runs next() up to its first await, one after another.
RECURSIVE RunStarters(_, _, _)
RunStarters(m, ls, n) ==
    IF Len(ls) = n THEN [m |-> m, ls |-> ls]
    ELSE LET r == Run([m EXCEPT !.l = FreshLocals])
         IN  RunStarters(r, Append(ls, r.l), n)

\* lines 255-258 and 311-314: without a key the command exits before any job.
MissingKey ==
    /\ phase = "start"
    /\ ~opts.umlsKey
    /\ phase' = "fatal"
    /\ reqs' = <<>>
    /\ jobs' = <<>>
    /\ UNCHANGED <<ids, opts, codes, idx, running, completed, results, cache, files,
                   wk, micro, toUpload, summary, claimed, writes, net, raised, posts,
                   aloneVars>>

\* Faulty variant of Start: the key is not looked at.
StartUnchecked ==
    /\ phase = "start"
    /\ LET r == RunStarters(Machine(FreshLocals), <<>>, Starters)
       IN  /\ Shared(r.m)
           /\ wk' = r.ls
           /\ micro' = SelectSeq([w \in 1..Starters |-> w], LAMBDA w : r.ls[w].lbl = "exp_ret")
    /\ phase' = "sched"
    /\ UNCHANGED <<ids, opts, codes, toUpload, summary, posts, aloneVars>>

\* lines 255-297: the command starts its workers.
Start ==
    /\ phase = "start"
    /\ opts.umlsKey
    /\ LET r == RunStarters(Machine(FreshLocals), <<>>, Starters)
       IN  /\ Shared(r.m)
           /\ wk' = r.ls
           /\ micro' = SelectSeq([w \in 1..Starters |-> w], LAMBDA w : r.ls[w].lbl = "exp_ret")
    /\ phase' = "sched"
    /\ UNCHANGED <<ids, opts, codes, toUpload, summary, posts, aloneVars>>

Scheduling == phase = "sched" /\ micro = <<>>

\* A page request of worker w is answered.
ExpGetReturns(w) ==
    /\ Scheduling
    /\ wk[w].lbl = "exp_get"
    /\ \E resp \in ExpResponses(wk[w].offset) :
           Commit(w, Run(ExpResponse(Machine(wk[w]), resp)), micro)

\* The backoff timer of worker w fires (line 665).
TimerFires(w) ==
    /\ Scheduling
    /\ wk[w].lbl = "exp_sleep"
    /\ Commit(w, Run(Machine([wk[w] EXCEPT !.lbl = "exp_try"])), micro)

\* The definition request of worker w is answered.
DefGetReturns(w) ==
    /\ Scheduling
    /\ wk[w].lbl = "def_get"
    /\ \E resp \in DefResponses :
           Commit(w, Run(DefResponse(Machine(wk[w]), resp)), micro)

\* The first worker of the microtask queue resumes after its fetch settled.
Microtask ==
    /\ phase = "sched"
    /\ micro # <<>>
    /\ LET w == Head(micro)
       IN  Commit(w, Run(Machine([wk[w] EXCEPT !.lbl = "exp_after"])), Tail(micro))

\* Faulty variant of AllSettled: the first worker to return ends the wait.
AnySettled == \E w \in DOMAIN wk : wk[w].lbl = "done"

\* line 297: Promise.all(starters) resolves when every worker has returned.
AllSettled == \A w \in DOMAIN wk : wk[w].lbl = "done"

\* lines 300-304: the resources to upload, in the order of the results.
Uploadable(r, postMode) ==
    IF postMode = "expanded" /\ r.expRes # NullRes THEN <<r.expRes>>
    ELSE IF postMode = "definition" /\ r.defRes # NullRes THEN <<r.defRes>>
    ELSE <<>>

\* Faulty variant of ToUpload: the last result comes first.
RECURSIVE ToUploadReversed(_, _)
ToUploadReversed(rs, postMode) ==
    IF rs = <<>> THEN <<>>
    ELSE ToUploadReversed(Tail(rs), postMode) \o Uploadable(Head(rs), postMode)

RECURSIVE ToUpload(_, _)
ToUpload(rs, postMode) ==
    IF rs = <<>> THEN <<>>
    ELSE Uploadable(Head(rs), postMode) \o ToUpload(Tail(rs), postMode)

\* lines 706-713: the transaction bundle, one entry per resource.
BundleOf(resources) ==
    [resourceType |-> "Bundle", type |-> "transaction",
     entry |-> [i \in DOMAIN resources |->
                   [resource |-> resources[i],
                    request |-> [method |-> "POST", url |-> "ValueSet"]]]]

\* lines 718 and 728: the submission made next: the bundle to the base URL, or
\* the resource at position n to <base>/ValueSet.
Submission(resources, bundle, n) ==
    IF bundle THEN [url |-> "base", body |-> BundleOf(resources)]
    ELSE [url |-> "base/ValueSet", body |-> resources[n]]

\* A value of e.message or r.error is truthy: neither absent nor empty.
Truthy(msg) == msg.text # ""

\* line 310: results.filter(r => r.error).length
CountErrors(rs) == Cardinality({i \in DOMAIN rs : rs[i].set /\ Truthy(rs[i].error)})

\* line 309: results.filter(r => !r.error).length
CountDownloaded(rs) == Cardinality({i \in DOMAIN rs : rs[i].set /\ ~Truthy(rs[i].error)})

\* lines 307-310: the summary printed.
PrintSummary ==
    [printed |-> TRUE, processed |-> Len(ids), downloaded |-> CountDownloaded(results),
     errors |-> CountErrors(results)]

\* postValueSetsToHapi from the resource at position n on, up to its next
\* await: a dry run only logs; a bundle is one call (lines 705-721), otherwise
\* there is one call per resource (lines 723-732).  Back in the action, the
\* summary is printed (lines 307-310).
PostFrom(resources, n) ==
    IF opts.dryRun \/ (~opts.bundle /\ n > Len(resources))
    THEN /\ phase' = "summary"
         /\ summary' = PrintSummary
         /\ net' = net
    ELSE /\ phase' = "upload"
         /\ summary' = summary
         /\ net' = net \cup {"upload"}

\* lines 297-310: every worker has returned; the upload begins if --post is
\* given, and the summary is printed when nothing is left to await.
Finish ==
    /\ Scheduling
    /\ AllSettled
    /\ IF opts.post
       THEN /\ toUpload' = ToUpload(results, opts.postMode)
            /\ PostFrom(toUpload', 1)
       ELSE /\ toUpload' = toUpload
            /\ phase' = "summary"
            /\ summary' = PrintSummary
            /\ net' = net
    /\ reqs' = <<>>
    /\ jobs' = <<>>
    /\ UNCHANGED <<ids, opts, codes, idx, running, completed, results, cache, files,
                   wk, micro, claimed, writes, raised, posts, aloneVars>>

\* lines 718-719, 728-729 and 311-314: a submission is answered.  A failure is
\* thrown out of postValueSetsToHapi and is fatal; otherwise the next resource
\* is submitted, or the summary is printed.
PostReturns ==
    /\ phase = "upload"
    /\ \E ok \in BOOLEAN :
           LET n == Len(posts) + 1
               sub == Submission(toUpload, opts.bundle, n)
           IN  /\ posts' = Append(posts, [url |-> sub.url, body |-> sub.body, ok |-> ok])
               /\ IF ok
                  THEN IF opts.bundle
                       THEN /\ phase' = "summary"
                            /\ summary' = PrintSummary
                            /\ net' = net
                       ELSE PostFrom(toUpload, n + 1)
                  ELSE /\ phase' = "fatal"
                       /\ UNCHANGED <<summary, net>>
    /\ UNCHANGED <<ids, opts, codes, idx, running, completed, results, cache, files,
                   wk, micro, toUpload, claimed, writes, raised, reqs, jobs,
                   aloneVars>>

Next ==
    \/ MissingKey
    \/ Start
    \/ \E w \in DOMAIN wk : ExpGetReturns(w)
    \/ \E w \in DOMAIN wk : TimerFires(w)
    \/ \E w \in DOMAIN wk : DefGetReturns(w)
    \/ Microtask
    \/ Finish
    \/ PostReturns

Spec == Init /\ [][Next]_vars

\* ------------------------------------------- the worker pool, longer lists
\* The same command, also on lists longer than the number of workers: up to
\* MaxPool identifiers for up to MaxWorkers workers, with the key, one stage
\* per job, one code per value set and one try per page, so that the workers
\* take the jobs over from one another in every order.
MaxPool == 4          \* longest list of identifiers given to the pool
MaxWorkers == 3       \* largest --concurrency option given to the pool
PoolIds == {BareId, BadId}
PoolOptions ==
    [concurrency : 1..MaxWorkers, retry : {1}, mode : {"definition", "expansion"},
     version : {""}, cacheDir : {TRUE}, dryRun : {FALSE}, umlsKey : {TRUE},
     post : {FALSE}, postMode : {"expanded"}, bundle : {FALSE}]

\* The state after construction of a run on a longer list.
LongRun ==
    /\ ids \in UNION {Lists(PoolIds, n) : n \in 1..MaxPool}
    /\ opts \in PoolOptions
    /\ codes = 1
    /\ phase = "start"
    /\ idx = 0
    /\ running = 0
    /\ completed = 0
    /\ results = [i \in 1..Len(ids) |-> NoResult]
    /\ cache = EmptyDir
    /\ files = EmptyDir
    /\ wk = <<>>
    /\ micro = <<>>
    /\ toUpload = <<>>
    /\ summary = NoSummary
    /\ claimed = [i \in 1..Len(ids) |-> 0]
    /\ writes = [k \in {} |-> 0]
    /\ net = {}
    /\ raised = {}
    /\ posts = <<>>
    /\ reqs = <<>>
    /\ jobs = <<>>
    /\ NoMergeCall
    /\ NoNormCall
    /\ NoCountCall
    /\ NoPutCall
    /\ NoApiCall
    /\ NoKeyCall

\* The runs of Init and the runs on longer lists.
PoolInit ==
    \/ Init
    \/ LongRun

PoolSpec == PoolInit /\ [][Next]_vars

\* ------------------------------------- mergeExpansionPages on its own
\* The pages mergeExpansionPages is applied to: with or without a version, an
\* expansion identifier, a declared total, and with zero, one or two items.
MergePagePool ==
    {[Resource(<<"1", ".", "2">>, v, c, t) EXCEPT !.identifier = x] :
        v \in {"", "20240101"}, x \in {"", "urn:uuid:1"},
        c \in {<<>>, <<"a">>, <<"b", "c">>}, t \in {0, 3}}

\* The defaults of the options (lines 240-252), and no key.
DefaultOptions ==
    [concurrency |-> 4, retry |-> 3, mode |-> "expansion", version |-> "",
     cacheDir |-> TRUE, dryRun |-> FALSE, umlsKey |-> FALSE, post |-> FALSE,
     postMode |-> "expanded", bundle |-> FALSE]

\* No run of the command is under way.
NoRun ==
    /\ ids = <<>>
    /\ opts = DefaultOptions
    /\ codes = 0
    /\ phase = "none"
    /\ idx = 0
    /\ running = 0
    /\ completed = 0
    /\ results = <<>>
    /\ cache = EmptyDir
    /\ files = EmptyDir
    /\ wk = <<>>
    /\ micro = <<>>
    /\ toUpload = <<>>
    /\ summary = NoSummary
    /\ claimed = <<>>
    /\ writes = [k \in {} |-> 0]
    /\ net = {}
    /\ raised = {}
    /\ posts = <<>>
    /\ reqs = <<>>
    /\ jobs = <<>>

MergeInit ==
    /\ NoRun
    /\ NoNormCall
    /\ NoCountCall
    /\ NoPutCall
    /\ NoApiCall
    /\ NoKeyCall
    /\ mpages \in UNION {Lists(MergePagePool, n) : n \in 0..MaxPages}
    /\ mresult = NoMerge

\* lines 685-690: mergeExpansionPages(mpages) returns.
MergeReturns ==
    /\ ~mresult.done
    /\ ~MergeThrows(mpages)
    /\ mresult' = [done |-> TRUE, threw |-> FALSE, value |-> mergeExpansionPages(mpages),
                   arg |-> mpages]
    /\ mpages' = PagesAfterMerge(mpages)
    /\ UNCHANGED exceptMerge

\* line 686: mergeExpansionPages(mpages) throws.
MergeFails ==
    /\ ~mresult.done
    /\ MergeThrows(mpages)
    /\ mresult' = [done |-> TRUE, threw |-> TRUE, value |-> NullRes, arg |-> mpages]
    /\ mpages' = mpages
    /\ UNCHANGED exceptMerge

MergeNext == MergeReturns \/ MergeFails

MergeSpec == MergeInit /\ [][MergeNext]_vars

\* ----------------------------------------- normalizeVsacId on its own
\* The forms of an identifier (line 619): an OID, urn:oid:<OID>, and the
\* canonical URL of the value set at the vocabulary service (line 616).
UrnPrefix == <<"u", "r", "n", ":", "o", "i", "d", ":">>
UrlPrefix ==
    <<"h", "t", "t", "p", "s", ":", "/", "/", "c", "t", "s", ".", "n", "l",
      "m", ".", "n", "i", "h", ".", "g", "o", "v", "/", "f", "h", "i", "r",
      "/", "V", "a", "l", "u", "e", "S", "e", "t", "/">>

\* The strings normalizeVsacId is applied to: every string of up to MaxIdLen
\* digits, dots and letters, bare, after urn:oid: and at the end of the URL.
IdAlphabet == {"1", "2", ".", "x"}
ShortIds == UNION {Lists(IdAlphabet, n) : n \in 0..MaxIdLen}
NormInputs ==
    ShortIds \cup {UrnPrefix \o t : t \in ShortIds} \cup {UrlPrefix \o t : t \in ShortIds}

NormInit ==
    /\ NoRun
    /\ NoMergeCall
    /\ NoCountCall
    /\ NoPutCall
    /\ NoApiCall
    /\ NoKeyCall
    /\ nid \in NormInputs
    /\ nresult = NoNorm

\* lines 620 and 622: normalizeVsacId(nid) returns match[1].
NormalizeReturns ==
    /\ ~nresult.done
    /\ normalizeVsacId(nid) # NoOid
    /\ nresult' = [done |-> TRUE, threw |-> FALSE, value |-> normalizeVsacId(nid)]
    /\ nid' = nid
    /\ UNCHANGED exceptNorm

\* line 621: normalizeVsacId(nid) throws 'Could not extract OID from ...'.
NormalizeFails ==
    /\ ~nresult.done
    /\ normalizeVsacId(nid) = NoOid
    /\ nresult' = [done |-> TRUE, threw |-> TRUE, value |-> <<>>]
    /\ nid' = nid
    /\ UNCHANGED exceptNorm

NormNext == NormalizeReturns \/ NormalizeFails

NormSpec == NormInit /\ [][NormNext]_vars

\* ------------------------------------------------ the starters alone
\* The values of --concurrency: a text that is no number, and the numbers from
\* -1 to MaxLimit + 0.5 in steps of a half; one to MaxCount identifiers.
ConcurrencyValues == {NaN} \cup {Halves(h) : h \in (-2)..(2 * MaxLimit + 1)}

CountInit ==
    /\ NoRun
    /\ NoMergeCall
    /\ NoNormCall
    /\ NoPutCall
    /\ NoApiCall
    /\ NoKeyCall
    /\ cval \in ConcurrencyValues
    /\ cjobs \in 1..MaxCount
    /\ cresult = NoCount

\* lines 259 and 296: the list of starters is created, one worker for each.
StartersCreated ==
    /\ ~cresult.done
    /\ ~ArrayThrows(StarterHalves(cval, cjobs))
    /\ cresult' = [done |-> TRUE, threw |-> FALSE,
                   workers |-> StarterHalves(cval, cjobs) \div 2]
    /\ UNCHANGED <<cval, cjobs, exceptCount>>

\* lines 296 and 311-314: Array(length) throws, which is fatal: no worker.
StartersThrow ==
    /\ ~cresult.done
    /\ ArrayThrows(StarterHalves(cval, cjobs))
    /\ cresult' = [done |-> TRUE, threw |-> TRUE, workers |-> 0]
    /\ UNCHANGED <<cval, cjobs, exceptCount>>

CountNext == StartersCreated \/ StartersThrow

CountSpec == CountInit /\ [][CountNext]_vars

\* ------------------------------------------- two runs sharing one cache
\* Lines 649-660 as the operating system sees them when the command is started
\* twice on the same cache directory: every file system call is one step, and
\* the calls of the two processes interleave. fs.writeFileSync opens the file
\* with truncation and then writes its text chunk by chunk; within one process
\* the call is synchronous, so only the other process can run in between.
MaxPutPages == 2
MaxChunks == 2

Runs == {"first", "duplicate"}
PutKeys == 0..(MaxPutPages - 1)
NoFile == [exists |-> FALSE, chunks |-> {}]
Complete(k) == pfile[k].exists /\ pfile[k].chunks = 1..psize[k]
Ended == {"done", "failed", "crashed"}

PutInit ==
    /\ NoRun
    /\ NoMergeCall
    /\ NoNormCall
    /\ NoCountCall
    /\ NoApiCall
    /\ NoKeyCall
    /\ psize \in [PutKeys -> 1..MaxChunks]
    /\ pfile = [k \in PutKeys |-> NoFile]
    /\ prun = [r \in Runs |-> [pc |-> "lookup", offset |-> 0, at |-> 0, seen |-> "nothing",
                              midWrite |-> FALSE]]

\* After a page: the next offset, or the end of the job.
PutAdvance(l, seen) ==
    IF l.offset + 1 \in PutKeys
    THEN [l EXCEPT !.pc = "lookup", !.offset = @ + 1, !.at = 0, !.seen = seen]
    ELSE [l EXCEPT !.pc = "done", !.at = 0, !.seen = seen]

\* line 650: fs.existsSync(cacheFile).
PutExists(r) ==
    /\ prun[r].pc = "lookup"
    /\ prun' = [prun EXCEPT ![r].pc = IF pfile[prun[r].offset].exists THEN "read" ELSE "get"]
    /\ UNCHANGED <<pfile, psize, exceptPut>>

\* line 651: JSON.parse(fs.readFileSync(cacheFile)): a text that is not the
\* whole document does not parse, and the job fails with the SyntaxError.
PutRead(r) ==
    /\ prun[r].pc = "read"
    /\ prun' = [prun EXCEPT ![r] =
                   IF Complete(prun[r].offset)
                   THEN PutAdvance(prun[r], "page")
                   ELSE [prun[r] EXCEPT !.pc = "failed", !.seen = "partial"]]
    /\ UNCHANGED <<pfile, psize, exceptPut>>

\* lines 655-656: the request returns its page.
PutGetReturns(r) ==
    /\ prun[r].pc = "get"
    /\ prun' = [prun EXCEPT ![r].pc = "open"]
    /\ UNCHANGED <<pfile, psize, exceptPut>>

\* line 659, first half: fs.writeFileSync opens the file, creating or
\* truncating it.
PutOpen(r) ==
    /\ prun[r].pc = "open"
    /\ pfile' = [pfile EXCEPT ![prun[r].offset] = [exists |-> TRUE, chunks |-> {}]]
    /\ prun' = [prun EXCEPT ![r].pc = "write", ![r].at = 0]
    /\ UNCHANGED <<psize, exceptPut>>

\* line 659, second half: the next chunk of the text is written at the
\* position of this process; after the last one the call returns.
PutWrite(r) ==
    /\ prun[r].pc = "write"
    /\ LET k == prun[r].offset
           c == prun[r].at + 1
       IN  /\ pfile' = [pfile EXCEPT ![k].chunks = @ \cup {c}]
           /\ prun' = [prun EXCEPT ![r] =
                          IF c = psize[k]
                          THEN PutAdvance(prun[r], "fetched")
                          ELSE [prun[r] EXCEPT !.at = c]]
    /\ UNCHANGED <<psize, exceptPut>>

\* The process is killed: its files stay as they are.
PutCrash(r) ==
    /\ prun[r].pc \notin Ended
    /\ prun' = [prun EXCEPT ![r].pc = "crashed", ![r].midWrite = (prun[r].pc = "write")]
    /\ UNCHANGED <<pfile, psize, exceptPut>>

PutNext ==
    \E r \in Runs :
        \/ PutExists(r)
        \/ PutRead(r)
        \/ PutGetReturns(r)
        \/ PutOpen(r)
        \/ PutWrite(r)
        \/ PutCrash(r)

PutSpec == PutInit /\ [][PutNext]_vars

\* --------------------------------------------------- the module service
\* The module management endpoints of api.ts over the registry of the core
\* library and the file system provider. A request is handled in one turn:
\* the handlers are synchronous. The registry is a map from module id to
\* module; DataSegmentationModule.fromJson accepts or rejects a document by
\* its structure, which a document carries here as its shape.
ModuleIds == {"m1", "m2"}
IdFile(id) == id \o ".json"
LegacyFile == "prepackaged.json"
Document(id, name, shape, enabled) ==
    [id |-> id, name |-> name, shape |-> shape, enabled |-> enabled]
NoBody == Document("", "", "none", FALSE)
Names == {"", "Test"}
Shapes == {"module", "rejected"}
Bodies == {Document(id, name, shape, enabled) :
               id \in {""} \cup ModuleIds, name \in Names, shape \in Shapes, enabled \in BOOLEAN}
Credentials == {"none", "wrong password", "administrator"}
Without(f, k) == [x \in DOMAIN f \ {k} |-> f[x]]

\* basicAuth({ users: { administrator: <password> } }): the handler runs only
\* for the administrator with the configured password.
AuthorizedAnyPassword(creds) == creds # "none"
Authorized(creds) == creds = "administrator"

\* part_002 lines 149-167: the message of the first failed check, or none.
validateFieldsOnly(body) ==
    IF body.id = "" \/ body.name = "" THEN "Module must have id and name fields"
    ELSE "none"
validateModule(body) ==
    IF body.id = "" \/ body.name = "" THEN "Module must have id and name fields"
    ELSE IF body.shape # "module" THEN "Invalid module structure"
    ELSE "none"

\* part_002 lines 110-115: the document goes to <id>.json in the directory.
saveModule(body) ==
    [d |-> (IdFile(body.id) :> body) @@ dir,
     f |-> (body.id :> IdFile(body.id)) @@ moduleFiles]

Response(op, id, creds, sent, status, doc) ==
    [op |-> op, id |-> id, creds |-> creds, sent |-> sent, status |-> status, doc |-> doc]

\* The modules directory at start: some modules in files named after them,
\* and possibly one more in a file with another name.
StoredModules ==
    {Document(id, "Test", "module", enabled) : id \in ModuleIds, enabled \in BOOLEAN}
InitialDirectories ==
    {d \in UNION {[F -> StoredModules] : F \in SUBSET ({IdFile(id) : id \in ModuleIds} \cup {LegacyFile})} :
        /\ \A f \in DOMAIN d : f # LegacyFile => f = IdFile(d[f].id)
        /\ \A f, g \in DOMAIN d : d[f].id = d[g].id => f = g}

\* part_002 lines 22-26 and 31-80: every document of the directory that the
\* module type accepts is registered under its id, with its file.
ApiInit ==
    /\ NoRun
    /\ NoMergeCall
    /\ NoNormCall
    /\ NoCountCall
    /\ NoPutCall
    /\ NoKeyCall
    /\ dir \in InitialDirectories
    /\ registry = [id \in {dir[f].id : f \in DOMAIN dir} |->
                      dir[CHOOSE f \in DOMAIN dir : dir[f].id = id]]
    /\ moduleFiles = [id \in {dir[f].id : f \in DOMAIN dir} |->
                         CHOOSE f \in DOMAIN dir : dir[f].id = id]
    /\ reply = Response("none", "", "none", NoBody, 0, "none")

\* The answer of the basicAuth middleware to a request it does not let pass:
\* no handler sees the body.
Unauthorized(op, id, creds, sent) ==
    /\ reply' = Response(op, id, creds, NoBody, 401, "none")
    /\ UNCHANGED <<registry, moduleFiles, dir>>

\* An answer that changes nothing.
Answer(op, id, creds, sent, status, doc) ==
    /\ reply' = Response(op, id, creds, sent, status, doc)
    /\ UNCHANGED <<registry, moduleFiles, dir>>

\* api.ts lines 231-245: GET /modules lists the registry.
ListModules ==
    /\ Answer("list", "", "none", NoBody, 200,
              [id \in DOMAIN registry |-> registry[id].enabled])
    /\ UNCHANGED exceptApi

\* api.ts lines 247-266: GET /modules/:id returns the document of the file.
GetModule ==
    /\ \E id \in ModuleIds :
           IF id \notin DOMAIN registry
           THEN Answer("get", id, "none", NoBody, 404, "none")
           ELSE IF id \notin DOMAIN moduleFiles \/ moduleFiles[id] \notin DOMAIN dir
           THEN Answer("get", id, "none", NoBody, 404, "none")
           ELSE Answer("get", id, "none", NoBody, 200, dir[moduleFiles[id]])
    /\ UNCHANGED exceptApi

\* api.ts lines 268-293: POST /modules.
PostModules ==
    /\ \E creds \in Credentials, body \in Bodies :
           IF ~Authorized(creds) THEN Unauthorized("post", "", creds, body)
           ELSE IF validateModule(body) # "none" THEN Answer("post", "", creds, body, 400, "none")
           ELSE IF body.id \in DOMAIN registry THEN Answer("post", "", creds, body, 409, "none")
           ELSE /\ dir' = saveModule(body).d
                /\ moduleFiles' = saveModule(body).f
                /\ registry' = (body.id :> body) @@ registry
                /\ reply' = Response("post", "", creds, body, 201, "none")
    /\ UNCHANGED exceptApi

\* api.ts lines 295-328: PUT /modules/:id.
PutModule ==
    /\ \E creds \in Credentials, id \in ModuleIds, body \in Bodies :
           LET named == [body EXCEPT !.id = id]
           IN  IF ~Authorized(creds) THEN Unauthorized("put", id, creds, body)
               ELSE IF id \notin DOMAIN registry THEN Answer("put", id, creds, body, 404, "none")
               ELSE IF body.id # "" /\ body.id # id THEN Answer("put", id, creds, body, 400, "none")
               ELSE IF validateModule(named) # "none" THEN Answer("put", id, creds, body, 400, "none")
               ELSE /\ dir' = saveModule(named).d
                    /\ moduleFiles' = saveModule(named).f
                    /\ registry' = (id :> named) @@ registry
                    /\ reply' = Response("put", id, creds, body, 200, "none")
    /\ UNCHANGED exceptApi

\* api.ts lines 330-348 and part_002 lines 120-137: DELETE /modules/:id.
DeleteModuleUnchecked ==
    /\ \E creds \in Credentials, id \in ModuleIds :
           IF ~Authorized(creds) THEN Unauthorized("delete", id, creds, NoBody)
           ELSE IF id \notin DOMAIN moduleFiles \/ moduleFiles[id] \notin DOMAIN dir
           THEN Answer("delete", id, creds, NoBody, 500, "none")
           ELSE /\ dir' = Without(dir, moduleFiles[id])
                /\ registry' = Without(registry, id)
                /\ moduleFiles' = Without(moduleFiles, id)
                /\ reply' = Response("delete", id, creds, NoBody, 200, "none")
    /\ UNCHANGED exceptApi
DeleteModule ==
    /\ \E creds \in Credentials, id \in ModuleIds :
           IF ~Authorized(creds) THEN Unauthorized("delete", id, creds, NoBody)
           ELSE IF id \notin DOMAIN registry THEN Answer("delete", id, creds, NoBody, 404, "none")
           ELSE IF id \notin DOMAIN moduleFiles \/ moduleFiles[id] \notin DOMAIN dir
           THEN Answer("delete", id, creds, NoBody, 500, "none")
           ELSE /\ dir' = Without(dir, moduleFiles[id])
                /\ registry' = Without(registry, id)
                /\ moduleFiles' = Without(moduleFiles, id)
                /\ reply' = Response("delete", id, creds, NoBody, 200, "none")
    /\ UNCHANGED exceptApi

\* Faulty variant of SetEnabled: the flag is written to the module's file too.
SetEnabledSaving(op, flag, creds, id) ==
    IF ~Authorized(creds) THEN Unauthorized(op, id, creds, NoBody)
    ELSE IF id \notin DOMAIN registry THEN Answer(op, id, creds, NoBody, 404, "none")
    ELSE /\ registry' = [registry EXCEPT ![id].enabled = flag]
         /\ reply' = Response(op, id, creds, NoBody, 200, "none")
         /\ dir' = IF id \in DOMAIN moduleFiles /\ moduleFiles[id] \in DOMAIN dir
                   THEN [dir EXCEPT ![moduleFiles[id]].enabled = flag]
                   ELSE dir
         /\ UNCHANGED moduleFiles

\* api.ts lines 350-363 and 365-378: POST /modules/:id/enable and /disable
\* set the flag of the registered module.
SetEnabled(op, flag, creds, id) ==
    IF ~Authorized(creds) THEN Unauthorized(op, id, creds, NoBody)
    ELSE IF id \notin DOMAIN registry THEN Answer(op, id, creds, NoBody, 404, "none")
    ELSE /\ registry' = [registry EXCEPT ![id].enabled = flag]
         /\ reply' = Response(op, id, creds, NoBody, 200, "none")
         /\ UNCHANGED <<moduleFiles, dir>>

EnableModule ==
    /\ \E creds \in Credentials, id \in ModuleIds : SetEnabled("enable", TRUE, creds, id)
    /\ UNCHANGED exceptApi

DisableModule ==
    /\ \E creds \in Credentials, id \in ModuleIds : SetEnabled("disable", FALSE, creds, id)
    /\ UNCHANGED exceptApi

\* part_002 lines 85-105: reloadModule(id) registers the module again from
\* its file; without a file it returns false (status 404 here).
ReloadModule ==
    /\ \E id \in ModuleIds :
           IF id \notin DOMAIN moduleFiles \/ moduleFiles[id] \notin DOMAIN dir
           THEN Answer("reload", id, "none", NoBody, 404, "none")
           ELSE LET file == moduleFiles[id]
                    module == dir[file]
                IN  /\ registry' = (module.id :> module) @@ Without(registry, id)
                    /\ moduleFiles' = (module.id :> file) @@ moduleFiles
                    /\ reply' = Response("reload", id, "none", NoBody, 200, "none")
                    /\ UNCHANGED dir
    /\ UNCHANGED exceptApi

ApiNext ==
    \/ ListModules
    \/ GetModule
    \/ PostModules
    \/ PutModule
    \/ DeleteModule
    \/ EnableModule
    \/ DisableModule
    \/ ReloadModule

ApiSpec == ApiInit /\ [][ApiNext]_vars

\* ------------------------------------------- fetches over one cache
\* fetchValueSetExpansion (lines 640-683) called on the same cache directory
\* by two callers at a time (two workers of a run, or two runs of the command)
\* and again after it returned, with a service that answers every request: the
\* request carries the filter and the page size (lines 643-647), the cache
\* file name does not (line 649).  A step is one turn of a fetch: from its
\* start, or from the answer to its request, up to its next request or its
\* return; a page found in the cache takes no await.
ValueSetCodes == <<"aspirin", "atenolol", "biotin">>
Filters == {"", "bio"}
PageSizes == {1, 2}
Versions == {"", "20240101"}
KeyOids == {<<"1", ".", "2">>}
Queries == [oid : KeyOids, version : Versions, filter : Filters, count : PageSizes]
Fetchers == {"first", "second"}

\* The codes of the value set that the filter text selects.
Matching(filter) ==
    IF filter = "" THEN ValueSetCodes
    ELSE SelectSeq(ValueSetCodes, LAMBDA c : c = "biotin")

\* The page the service returns for a query at an offset.
ServerAnswer(q, offset) ==
    LET items == Matching(q.filter)
    IN  Resource(q.oid, q.version,
                 SubSeq(items, offset + 1, Min(offset + q.count, Len(items))),
                 Len(items))

\* Faulty variant of LookupKey: the filter text is part of the file name.
LookupKeyWithFilter(q, offset) ==
    CacheKey(q.oid, OrElse(q.version, "latest") \o q.filter, offset)

\* line 649: the cache file of a page of a query.
LookupKey(q, offset) == CacheKey(q.oid, q.version, offset)

\* The locals of a fetch: pc is "idle" (not called), "get" (awaiting the
\* answer to the request at offset) or "done" (returned); calls are the
\* offsets requested from the service, hits the offsets served by the cache.
NoFetch == [pc |-> "idle", query |-> [oid |-> <<>>, version |-> "", filter |-> "", count |-> 0],
            offset |-> 0, pages |-> <<>>, got |-> 0, calls |-> {}, hits |-> {}]

\* lines 642-655: the page loop from the lookup at l.offset up to the next
\* request; lines 674-682: the page is kept, and the loop ends or goes on.
RECURSIVE KeyedLoop(_, _)
RECURSIVE KeyedPage(_, _, _)
KeyedLoop(c, l) ==
    LET key == LookupKey(l.query, l.offset)
    IN  IF CacheExists(c, key)
        THEN KeyedPage(c, [l EXCEPT !.hits = @ \cup {l.offset}], c[key])
        ELSE [l EXCEPT !.pc = "get", !.calls = @ \cup {l.offset}]
KeyedPage(c, l, page) ==
    LET n == Len(page.contains)
        got == l.got + n
        kept == [l EXCEPT !.pages = Append(@, page), !.got = got]
    IN  IF n = 0 \/ page.total = 0 \/ got >= page.total
        THEN [kept EXCEPT !.pc = "done"]
        ELSE KeyedLoop(c, [kept EXCEPT !.offset = @ + n])

KeyInit ==
    /\ NoRun
    /\ NoMergeCall
    /\ NoNormCall
    /\ NoCountCall
    /\ NoPutCall
    /\ NoApiCall
    /\ kcache = EmptyDir
    /\ kfetch = [f \in Fetchers |-> NoFetch]

\* lines 640-655: a caller starts the fetch of a query.
KeyStart(f) ==
    /\ kfetch[f].pc \in {"idle", "done"}
    /\ \E q \in Queries :
           kfetch' = [kfetch EXCEPT ![f] = KeyedLoop(kcache, [NoFetch EXCEPT !.query = q])]
    /\ UNCHANGED <<kcache, exceptKey>>

\* lines 655-660 and 674-682: the request of a fetch is answered; the page
\* is written to the cache file, kept, and the loop goes on.
KeyAnswer(f) ==
    /\ kfetch[f].pc = "get"
    /\ LET l == kfetch[f]
           page == ServerAnswer(l.query, l.offset)
           c2 == (LookupKey(l.query, l.offset) :> page) @@ kcache
       IN  /\ kcache' = c2
           /\ kfetch' = [kfetch EXCEPT ![f] = KeyedPage(c2, l, page)]
    /\ UNCHANGED exceptKey

KeyNext ==
    \E f \in Fetchers :
        \/ KeyStart(f)
        \/ KeyAnswer(f)

KeySpec == KeyInit /\ [][KeyNext]_vars

\* ------------------------------------------------------- the properties
Range(q) == {q[i] : i \in DOMAIN q}
Positions == 1..Len(ids)
Limit == EffectiveConcurrency(opts.concurrency)

\* The input positions that were claimed and whose job has not completed.
InFlight == {i \in Positions : i <= idx /\ ~results[i].set}

\* C1: the number of jobs claimed and not yet completed never exceeds the
\* effective concurrency limit, and the running counter never does either.
C1_AtMostNInFlight ==
    /\ Cardinality(InFlight) <= Limit
    /\ running <= Limit

\* C1 witness: several workers and more identifiers than workers: every worker
\* holds a job, one of them claimed after a later job's fetch succeeded while
\* an earlier job was still in flight, and a job is still unclaimed.
C1_LimitReached ==
    /\ phase = "sched"
    /\ Limit >= 2
    /\ Len(ids) > Limit
    /\ Cardinality(InFlight) = Limit
    /\ running = Limit
    /\ \E i \in Positions :
           /\ results[i].set
           /\ results[i].error = NoMsg
           /\ \E j \in InFlight : j < i
    /\ idx < Len(ids)

\* C2: every input position is claimed at most once, the claimed positions are
\* exactly those below the cursor (none skipped), no two workers hold the same
\* position, and when every worker has returned every position was claimed
\* exactly once.
C2_ClaimedExactlyOnce ==
    /\ \A i \in Positions : claimed[i] = (IF i <= idx THEN 1 ELSE 0)
    /\ \A v, w \in DOMAIN wk :
           (v # w /\ wk[v].lbl \notin {"claim", "done"} /\ wk[w].lbl \notin {"claim", "done"})
               => wk[v].myIdx # wk[w].myIdx
    /\ phase = "summary" => \A i \in Positions : claimed[i] = 1

\* C2 witness: a run of two workers ended, the second job claimed while the
\* first was in flight.
C2_AllClaimed ==
    /\ phase = "summary"
    /\ Len(ids) >= 2
    /\ Cardinality(DOMAIN wk) >= 2
    /\ \A w \in DOMAIN wk : wk[w].myIdx = w - 1

\* The slot holds the result of the job of its own position: the normalized
\* identifier on success, the identifier as given with the error on failure.
ResultOf(i) ==
    IF (i - 1) \notin raised
    THEN results[i].oid = normalizeVsacId(ids[i]) /\ results[i].oid # NoOid
    ELSE results[i].oid = ids[i]

\* C3: a written slot always holds the result of the job of that position,
\* and when the scheduler finishes every slot is written.
C3_ResultsInInputOrder ==
    /\ \A i \in Positions : results[i].set => (i <= idx /\ ResultOf(i))
    /\ phase = "summary" => \A i \in Positions : results[i].set

\* C3 witness: the run finished after a later job completed before an earlier
\* one (the earlier one was still in flight when the later slot was written).
C3_LaterJobFirst ==
    /\ phase = "sched"
    /\ Len(ids) >= 2
    /\ ~results[1].set
    /\ results[2].set
    /\ 1 \notin raised

\* C4: a job that leaves the try block with an error has it recorded in its
\* own slot, and no job failure ends the run with a fatal exit.
C4_FailureIsolated ==
    /\ \A j \in Range(jobs) :
           j.err # NoErr =>
               /\ ~j.threw
               /\ results[j.job + 1].set
               /\ results[j.job + 1].error = j.err.message
    /\ opts.umlsKey => phase # "fatal"

NonRetryableError(e) ==
    /\ e.message.text \in {"Network Error", "Request failed with status code", ""}
    /\ e.thrown
    /\ ~Retryable(e.status)

\* C5: a failed call that is neither 429 nor 5xx is the last call of its
\* request (one call more than the retried failures, no delay after it), and
\* the job fails with that failure recorded as its error.
C5_NonRetryableNotRetried ==
    /\ \A e \in Range(reqs) :
           e.out = "error" =>
               /\ NonRetryableError(e.err)
               /\ e.calls = Len(e.delays) + 1
    /\ \A j \in Range(jobs) :
           NonRetryableError(j.err) =>
               /\ results[j.job + 1].set
               /\ results[j.job + 1].error = j.err.message

\* C6: a page request answered k times with 429 or 5xx and then with 200,
\* k below the configured limit, returns the page after k retries, each after
\* a delay; so a request is given up only after `retry` failures of its own.
C6_SucceedsAfterKRetries ==
    \A e \in Range(reqs) :
        /\ (e.out = "ok" /\ ~e.hit) => e.calls = Len(e.delays) + 1
        /\ e.out = "exhausted" => Len(e.delays) >= opts.retry

\* C7: every page request that goes to the network starts with the full retry
\* allowance, whatever earlier pages of the same identifier consumed.
C7_FullAllowancePerPage ==
    \A e \in Range(reqs) : ~e.hit => e.before = 0

\* C8: a request given up after retryable failures fails with an error that
\* carries the status of the last failed call, and the job records that error.
C8_ExhaustedCarriesLast ==
    /\ \A e \in Range(reqs) :
           (e.out = "exhausted" /\ e.delays # <<>>) => e.err.status = e.last
    /\ \A j \in Range(jobs) :
           j.err.message.text = "Failed to fetch expansion after" =>
               results[j.job + 1].error = j.err.message

\* C9: a page whose cache file exists when it is looked up costs no network
\* call and no delay, and the page used is the cached one.
C9_CacheHitNoNetwork ==
    \A e \in Range(reqs) :
        e.hit => /\ e.calls = 0
                 /\ e.delays = <<>>
                 /\ e.out = "ok"
                 /\ e.page = cache[e.key]

\* C9 witness: a page was served from the cache.
C9_Hit == \E e \in Range(reqs) : e.hit

\* C10: no cache file is written more than once in a run.
C10_WrittenOnce == \A k \in DOMAIN writes : writes[k] <= 1

\* A definition was obtained for the identifier of position i by an earlier
\* job of a sequential run.
DefinitionHeld(i) ==
    /\ Starters = 1
    /\ \E k \in 1..(i - 1) :
           /\ results[k].set
           /\ results[k].defRes # NullRes
           /\ results[k].oid = normalizeVsacId(ids[i])

\* C11: the definition request goes through the cache and the retry executor
\* like every request of the fetcher: when retries are allowed no job fails at
\* the definition stage with a 429 or 5xx after a single call, and no call is
\* made for a definition that an earlier job of the run already obtained.
C11_DefinitionCachedAndRetried ==
    \A j \in Range(jobs) :
        /\ (j.stage = "definition" /\ Retryable(j.err.status) /\ opts.retry >= 2)
               => j.defCalls >= 2
        /\ (j.defCalls > 0 /\ ~opts.dryRun) => ~DefinitionHeld(j.job + 1)

\* C12: the page loop of an expansion fetch ends normally only after a page of
\* no items, or when the items received reach the total the page declares; a
\* page with items and no declared total does not end it.
C12_StopsOnlyOnEmptyOrTotal ==
    \A w \in DOMAIN wk :
        (wk[w].lbl = "exp_ret" /\ wk[w].err = NoErr /\ wk[w].pages # <<>>) =>
            LET last == wk[w].pages[Len(wk[w].pages)]
            IN  \/ last.contains = <<>>
                \/ (last.total # 0 /\ wk[w].got >= last.total)

\* The first n codes of a value set, in the order the service holds them.
FirstCodes(n) == [k \in 1..n |-> k - 1]

\* C13: while a page of an identifier is requested, the pages before it have
\* all been received, each held the codes at its own offset, and the offset
\* requested is the number of codes they returned (0 for the first page, and
\* larger at every request); the merged resource holds the codes of the pages
\* in that order.
C13_PagesInOffsetOrder ==
    /\ \A w \in DOMAIN wk :
           wk[w].lbl \in {"exp_get", "exp_sleep"} =>
               /\ wk[w].offset = Len(FlatContains(wk[w].pages))
               /\ wk[w].offset = wk[w].got
               /\ FlatContains(wk[w].pages) = FirstCodes(wk[w].offset)
               /\ \A i \in DOMAIN wk[w].pages : wk[w].pages[i].contains # <<>>
    /\ \A i \in Positions :
           (results[i].set /\ results[i].expRes # NullRes) =>
               results[i].expRes.contains = FirstCodes(Len(results[i].expRes.contains))

\* C13 witness: an expansion of two pages was fetched and merged.
C13_TwoPagesMerged ==
    \E i \in Positions : results[i].set /\ Len(results[i].expRes.contains) >= 2

\* The number of items of the pages before page i.
RECURSIVE ItemsBefore(_, _)
ItemsBefore(pages, i) ==
    IF i <= 1 THEN 0
    ELSE ItemsBefore(pages, i - 1) + Len(pages[i - 1].contains)

\* C14: mergeExpansionPages of a non-empty list of pages returns a resource
\* whose items are the pages' items, each page's items in their order after
\* those of the pages before it (a page without items adds none), whose other
\* fields are those of the first page; the pages are as they were.
C14_MergeConcatenates ==
    (mresult.done /\ mresult.arg # <<>>) =>
        LET in == mresult.arg
            out == mresult.value
        IN  /\ ~mresult.threw
            /\ Len(out.contains) = ItemsBefore(in, Len(in) + 1)
            /\ \A i \in DOMAIN in : \A k \in DOMAIN in[i].contains :
                   out.contains[ItemsBefore(in, i) + k] = in[i].contains[k]
            /\ out.resourceType = in[1].resourceType
            /\ out.id = in[1].id
            /\ out.version = in[1].version
            /\ out.identifier = in[1].identifier
            /\ out.total = in[1].total
            /\ mpages = in

\* C14 witness: two pages that differ in their other fields were merged, the
\* first of them without items.
C14_TwoPagesOneEmpty ==
    /\ mresult.done
    /\ Len(mresult.arg) = 2
    /\ mresult.arg[1].contains = <<>>
    /\ mresult.arg[2].contains = <<"b", "c">>
    /\ mresult.arg[1].version # mresult.arg[2].version

\* C15: mergeExpansionPages throws on an empty list, and no job meets that:
\* an expansion fetch that returns without an error returns at least one page,
\* a dry run merges exactly one page, and no job fails at the merge.
C15_NeverEmptyMerge ==
    /\ MergeThrows(<<>>)
    /\ \A w \in DOMAIN wk :
           (wk[w].lbl = "exp_ret" /\ wk[w].err = NoErr) => Len(wk[w].pages) >= 1
    /\ \A j \in Range(jobs) :
           /\ j.stage # "merge"
           /\ j.err.message.text # "No expansion pages to merge."
           /\ (j.err = NoErr /\ opts.mode \in {"expansion", "both"}) =>
                  (IF opts.dryRun THEN j.pages = 1 ELSE j.pages >= 1)

\* C15 witness: a fetched expansion was merged and its job ended without error.
C15_FetchedAndMerged ==
    \E j \in Range(jobs) :
        ~opts.dryRun /\ j.err = NoErr /\ j.pages >= 1 /\ results[j.job + 1].expRes # NullRes

\* The stub written for an identifier in a dry run.
StubFor(oid) == Resource(oid, OrElse(opts.version, "unknown"), <<>>, 0)
StubWritten(oid, kind) ==
    LET name == FileName(oid, OrElse(opts.version, "unknown"), kind)
    IN  name \in DOMAIN files /\ files[name] = StubFor(oid)

\* C16: a dry run never calls the network (no definition request, no page
\* request, no submission to the FHIR server, none in flight), never writes a
\* cache file, and when it ends it has written the stub file of each mode for
\* every identifier that holds an OID.
C16_DryRunTouchesNothing ==
    opts.dryRun =>
        /\ net = {}
        /\ posts = <<>>
        /\ phase # "upload"
        /\ \A w \in DOMAIN wk : wk[w].lbl \notin {"def_get", "exp_get", "exp_sleep"}
        /\ cache = EmptyDir
        /\ DOMAIN writes = {}
        /\ phase = "summary" =>
               \A i \in Positions :
                   LET oid == normalizeVsacId(ids[i])
                   IN  oid # NoOid =>
                           /\ opts.mode \in {"definition", "both"} => StubWritten(oid, "definition")
                           /\ opts.mode \in {"expansion", "both"} => StubWritten(oid, "expanded")

\* C16 witness: a dry run with an upload requested ended, with a stub to upload.
C16_DryRunWithUpload ==
    /\ opts.dryRun
    /\ opts.post
    /\ phase = "summary"
    /\ toUpload # <<>>
    /\ files # EmptyDir

\* C17: without a credential the command only exits with status 1 (the phase
\* "fatal"): no job is claimed, no worker exists, no network call is made, no
\* cache or output file is written and no summary is printed.
C17_MissingKeyAborts ==
    ~opts.umlsKey =>
        /\ phase \in {"start", "fatal"}
        /\ idx = 0
        /\ \A i \in Positions : claimed[i] = 0 /\ ~results[i].set
        /\ wk = <<>>
        /\ net = {}
        /\ posts = <<>>
        /\ cache = EmptyDir
        /\ DOMAIN writes = {}
        /\ files = EmptyDir
        /\ ~summary.printed

\* C17 witness: a command given identifiers and no credential has exited.
C17_ExitedWithoutKey ==
    /\ ~opts.umlsKey
    /\ phase = "fatal"
    /\ Len(ids) >= 1

\* C18: the summary printed at the end of a run counts every identifier as
\* processed, every processed job as either succeeded or failed, and as failed
\* exactly the jobs whose pipeline raised an error, whatever its message.
C18_SummaryCountsAccurate ==
    phase = "summary" =>
        /\ summary.printed
        /\ summary.processed = Len(ids)
        /\ summary.downloaded + summary.errors = summary.processed
        /\ summary.errors = Cardinality(raised)

\* C19: without --bundle every resource is submitted by a call of its own,
\* in order; a submission that fails does not end the run, the resources after
\* it are still submitted and the summary is reached.
C19_PerResourceFailureIsolated ==
    (opts.post /\ ~opts.bundle) =>
        /\ \A k \in DOMAIN posts :
               posts[k].url = "base/ValueSet" /\ posts[k].body = toUpload[k]
        /\ (\E k \in DOMAIN posts : ~posts[k].ok) => phase # "fatal"
        /\ (phase = "summary" /\ ~opts.dryRun) => Len(posts) = Len(toUpload)

\* The resources of the upload mode held by the results, in input order.
UploadableInOrder ==
    SelectSeq([i \in Positions |->
                  IF opts.postMode = "expanded" THEN results[i].expRes
                  ELSE results[i].defRes],
              LAMBDA r : r # NullRes)

\* C20: with --bundle the upload is a single call that carries one transaction
\* bundle with one entry for each uploadable resource, in input order; a run
\* (not a dry run) that reaches its summary made exactly that call, and when
\* the call fails the run ends there, no resource being submitted on its own.
C20_BundleIsOneCall ==
    (opts.post /\ opts.bundle) =>
        /\ Len(posts) <= 1
        /\ phase = "upload" => posts = <<>>
        /\ \A k \in DOMAIN posts :
               /\ posts[k].url = "base"
               /\ posts[k].body.resourceType = "Bundle"
               /\ posts[k].body.type = "transaction"
               /\ Len(posts[k].body.entry) = Len(UploadableInOrder)
               /\ \A i \in DOMAIN posts[k].body.entry :
                      posts[k].body.entry[i].resource = UploadableInOrder[i]
               /\ ~posts[k].ok => phase = "fatal"
        /\ (phase = "summary" /\ ~opts.dryRun) => (Len(posts) = 1 /\ posts[1].ok)

\* C20 witness: a bundle of two different resources was submitted and accepted.
C20_BundleOfTwo ==
    /\ opts.post
    /\ opts.bundle
    /\ phase = "summary"
    /\ Len(posts) = 1
    /\ Len(posts[1].body.entry) = 2
    /\ posts[1].body.entry[1].resource # posts[1].body.entry[2].resource

\* The resources of the upload mode produced by the jobs that raised no error,
\* in input order.
SuccessfulInOrder ==
    SelectSeq([i \in Positions |->
                  IF (i - 1) \in raised THEN NullRes
                  ELSE IF opts.postMode = "expanded" THEN results[i].expRes
                  ELSE results[i].defRes],
              LAMBDA r : r # NullRes)

\* An upload has begun: a submission was made or the list to submit was built.
UploadBegun == phase = "upload" \/ posts # <<>> \/ "upload" \in net \/ toUpload # <<>>

\* C21: the upload comes after the jobs: when it has begun every job of the
\* run has completed and every worker has returned, the resources to submit
\* are those of the jobs that raised no error, and a job that raised an error
\* holds no resource in its result.
C21_UploadAfterAllJobs ==
    /\ UploadBegun =>
           /\ completed = Len(ids)
           /\ running = 0
           /\ \A i \in Positions : results[i].set
           /\ \A w \in DOMAIN wk : wk[w].lbl = "done"
           /\ toUpload = SuccessfulInOrder
           /\ \A k \in DOMAIN posts :
                  ~opts.bundle => \E i \in DOMAIN toUpload : posts[k].body = toUpload[i]
    /\ \A i \in Positions :
           (i - 1) \in raised =>
               results[i].expRes = NullRes /\ results[i].defRes = NullRes

\* C21 witness: a resource was submitted in a run where another job failed.
C21_UploadedBesideFailure ==
    /\ posts # <<>>
    /\ raised # {}
    /\ Len(toUpload) >= 1

\* A dotted-numeric identifier: groups of digits separated by single dots, with
\* at least one dot, not ending (nor beginning) with a dot.
IsDotted(t) ==
    /\ t # <<>>
    /\ \A k \in DOMAIN t : IsOidChar(t[k])
    /\ IsDigit(t[1])
    /\ IsDigit(t[Len(t)])
    /\ \E k \in DOMAIN t : t[k] = "."
    /\ \A k \in 1..(Len(t) - 1) : ~(t[k] = "." /\ t[k + 1] = ".")

\* The ends of the dotted-numeric substrings of t that begin at i.
DottedFrom(t, i) == {j \in i..Len(t) : IsDotted(SubSeq(t, i, j))}
HasDotted(t) == \E i \in DOMAIN t : DottedFrom(t, i) # {}

\* The first dotted-numeric substring of t: the leftmost, taken whole.
FirstDotted(t) ==
    LET i == CHOOSE k \in DOMAIN t :
                 DottedFrom(t, k) # {} /\ \A m \in 1..(k - 1) : DottedFrom(t, m) = {}
        j == CHOOSE e \in DottedFrom(t, i) : \A f \in DottedFrom(t, i) : f <= e
    IN  SubSeq(t, i, j)

\* C22: normalizeVsacId returns the first dotted-numeric substring of its
\* argument, and throws when the argument holds none.
C22_FirstDottedSubstring ==
    nresult.done =>
        IF HasDotted(nid)
        THEN ~nresult.threw /\ nresult.value = FirstDotted(nid)
        ELSE nresult.threw

\* The three forms of the identifier o.
FormsOf(o) == {o, UrnPrefix \o o, UrlPrefix \o o}
CanonicalIds == {o \in ShortIds : IsDotted(o)}

\* C23: for every dotted-numeric identifier o, normalizeVsacId returns o for o
\* itself, for urn:oid:o and for the canonical URL that ends in o; and what it
\* returns is returned unchanged when normalized again.
C23_SameCanonicalForm ==
    nresult.done =>
        /\ \A o \in CanonicalIds :
               nid \in FormsOf(o) => (~nresult.threw /\ nresult.value = o)
        /\ ~nresult.threw => normalizeVsacId(nresult.value) = nresult.value

\* C23 witness: the canonical URL of a value set was normalized to its OID.
C23_UrlNormalized ==
    /\ nresult.done
    /\ nid = UrlPrefix \o <<"1", ".", "2", "1">>
    /\ nresult.value = <<"1", ".", "2", "1">>

\* C24: whatever --concurrency is given (zero, negative, no number), with at
\* least one identifier the workers are started, at least one and at most one
\* for each identifier; for a limit N >= 1 they are exactly min(N, identifiers).
C24_StartersWithinBounds ==
    cresult.done =>
        /\ ~cresult.threw
        /\ cresult.workers >= 1
        /\ cresult.workers <= cjobs
        /\ (~cval.nan /\ cval.halves >= 2) => 2 * cresult.workers = Min(cval.halves, 2 * cjobs)

\* C25: within a page request the delay taken before retry k is
\* BackoffBase * 2^k, so every delay is twice the one before it, and it
\* depends on nothing but the number of the retry within that request.
C25_DelayDoublesPerRequest ==
    /\ \A e \in Range(reqs) :
           \A k \in DOMAIN e.delays : e.delays[k] = BackoffBase * Pow2(k)
    /\ \A w \in DOMAIN wk :
           \A k \in DOMAIN wk[w].reqDelays : wk[w].reqDelays[k] = BackoffBase * Pow2(k)

\* C26: a page obtained from the network is in the cache under its key when
\* the turn that appends it to the pages ends, no cache file ever goes away,
\* and so the pages a job has gathered from the network stay cached under their
\* keys when the job fails later.
C26_CachedBeforeAppended ==
    /\ \A e \in Range(reqs) :
           (e.out = "ok" /\ ~e.hit) =>
               e.key \in DOMAIN cache /\ cache[e.key] = e.page /\ e.key \in DOMAIN writes
    /\ \A k \in DOMAIN writes : k \in DOMAIN cache
    /\ ~opts.dryRun =>
           \A w \in DOMAIN wk :
               \A i \in DOMAIN wk[w].pages :
                   CacheKey(wk[w].oid, opts.version, ItemsBefore(wk[w].pages, i))
                       \in DOMAIN cache

\* C26 witness: a job failed at its second page and the first page is cached.
C26_FailedAfterFirstPage ==
    \E j \in Range(jobs) :
        /\ j.stage = "expansion"
        /\ j.pages = 1
        /\ CacheKey(normalizeVsacId(ids[j.job + 1]), opts.version, 0) \in DOMAIN cache


\* C27: a cache file is never seen half-written: a process that finds a
\* file under a key reads a whole page from it, and once every process has
\* ended (finished, failed, or been killed between two puts) every file in the
\* cache is whole.
C27_NeverHalfWritten ==
    /\ \A r \in DOMAIN prun : prun[r].seen # "partial"
    /\ (\A r \in DOMAIN prun : prun[r].pc \in Ended /\ ~prun[r].midWrite) =>
           \A k \in DOMAIN pfile : pfile[k].exists => Complete(k)

\* What the module service keeps: registry, module-file map and directory.
Kept == <<registry, moduleFiles, dir>>
MutatingOps == {"post", "put", "delete", "enable", "disable"}

\* C28: a mutating module request without the administrator's credentials
\* is answered 401 and leaves the registry, the module-file map and the
\* modules directory as they were, whether or not the module exists.
C28_UnauthorizedChangesNothing ==
    [][(reply'.op \in MutatingOps /\ reply'.creds # "administrator") =>
           (reply'.status = 401 /\ UNCHANGED Kept)]_vars

C28_ExistingModuleRefused ==
    /\ reply.op = "delete"
    /\ reply.creds = "wrong password"
    /\ reply.status = 401
    /\ reply.id \in DOMAIN registry
    /\ reply.id \in DOMAIN moduleFiles
    /\ moduleFiles[reply.id] \in DOMAIN dir

\* C29: GET, PUT, DELETE, enable and disable of an id that is not in the
\* registry (with the administrator's credentials where they are required)
\* are answered 404 and change nothing.
C29_UnknownIdNotFound ==
    [][(/\ reply'.op \in {"get", "put", "delete", "enable", "disable"}
        /\ reply'.op = "get" \/ reply'.creds = "administrator"
        /\ reply'.id \notin DOMAIN registry) =>
           (reply'.status = 404 /\ UNCHANGED Kept)]_vars

C29_UnknownIdRequested ==
    /\ reply.op = "delete"
    /\ reply.creds = "administrator"
    /\ reply.status = 404
    /\ reply.id \notin DOMAIN registry
    /\ registry # <<>>

\* A document that misses its id or name, or that the module type rejects.
Invalid(body) == body.id = "" \/ body.name = "" \/ body.shape = "rejected"

\* C30: an authenticated POST /modules of an invalid module is answered 400,
\* of a valid one with a registered id 409, both without any change; a module
\* is created (201) only when it is valid and its id is new, and it is then
\* in the registry with its file.
C30_PostValidatesThenCreates ==
    [][(reply'.op = "post" /\ reply'.creds = "administrator") =>
           /\ Invalid(reply'.sent) => (reply'.status = 400 /\ UNCHANGED Kept)
           /\ (~Invalid(reply'.sent) /\ reply'.sent.id \in DOMAIN registry) =>
                  (reply'.status = 409 /\ UNCHANGED Kept)
           /\ reply'.status = 201 =>
                  /\ ~Invalid(reply'.sent)
                  /\ reply'.sent.id \notin DOMAIN registry
                  /\ reply'.sent.id \in DOMAIN registry'
                  /\ registry'[reply'.sent.id] = reply'.sent
                  /\ moduleFiles'[reply'.sent.id] \in DOMAIN dir'
           /\ reply'.status # 201 => UNCHANGED Kept]_vars

C30_DuplicateRefused ==
    /\ reply.op = "post"
    /\ reply.status = 409
    /\ reply.sent.id \in DOMAIN registry
    /\ registry[reply.sent.id] # reply.sent

\* C31: the retry option is the number of retries after the first attempt: a
\* page request that does not come from the cache is attempted at least once,
\* also with --retry 0, and one that is given up with its allowance untouched
\* by earlier pages was called --retry + 1 times.
C31_RetriesAfterInitial ==
    \A e \in Range(reqs) :
        (~e.hit /\ e.before = 0 /\ ~opts.dryRun) =>
            /\ e.calls >= 1
            /\ e.out = "exhausted" => e.calls = opts.retry + 1

\* The pages a worker holds all declare the same total.
SameTotal(ps) == \A i, j \in DOMAIN ps : ps[i].total = ps[j].total

\* C32: the expansion fetch of an identifier is bounded: when every page
\* declares the same total T the fetch holds at most T pages (one page when
\* T is 0: the page that declares it), and the failed calls it has retried
\* never exceed the retry limit.
C32_FetchBounded ==
    \A w \in DOMAIN wk :
        /\ wk[w].tries <= opts.retry
        /\ (wk[w].pages # <<>> /\ ~opts.dryRun /\ SameTotal(wk[w].pages)) =>
               Len(wk[w].pages) <= Max(1, wk[w].pages[1].total)

\* C32 witness: a fetch ended with as many pages as the total they declare,
\* after a retry.
C32_TotalReached ==
    \E w \in DOMAIN wk :
        /\ Len(wk[w].pages) = MaxTotal
        /\ SameTotal(wk[w].pages)
        /\ wk[w].pages[1].total = MaxTotal
        /\ wk[w].tries > 0

\* Every job of the run has completed and every worker has returned.
AllCompleted ==
    /\ \A i \in Positions : results[i].set
    /\ running = 0
    /\ completed = Len(ids)
    /\ AllSettled

\* C33: a run that has started its workers ends with every job completed:
\* no worker has stopped while a job is unclaimed, and once the run is past
\* its scheduling (upload, summary or exit) every slot is filled, nothing is
\* in flight, every worker has returned and the completed count is the number
\* of identifiers.
C33_RunCompletes ==
    /\ \A w \in DOMAIN wk : wk[w].lbl \in {"done", "crashed"} => idx >= Len(ids)
    /\ (phase \in {"upload", "summary", "fatal"} /\ wk # <<>>) => AllCompleted

\* The jobs that finished in the last turn, successful or failed.
Finished(js) == Cardinality({i \in DOMAIN js : ~js[i].threw})

\* C34: the progress counters are consistent: in every step the completed
\* count grows by exactly the number of jobs that finished in that step,
\* whether they succeeded or failed, it is the number of filled slots, and
\* after the step the claimed jobs are the completed and the in-flight ones.
C34_CountersConsistent ==
    [][/\ completed' = completed + Finished(jobs')
       /\ completed' = Cardinality({i \in DOMAIN results' : results'[i].set})
       /\ idx' = completed' + running']_vars

\* C34 witness: the second job has been counted while the first is in flight.
C34_CountedOutOfOrder ==
    /\ Len(ids) = 2
    /\ completed = 1
    /\ running = 1
    /\ results[2].set
    /\ ~results[1].set
    /\ results[2].error # NoMsg

\* The offsets a fetch looked up in the step: those it found in the cache,
\* and those it requested.
NewHits(f) ==
    IF kfetch[f].pc = "get" THEN kfetch'[f].hits \ kfetch[f].hits ELSE kfetch'[f].hits
NewCalls(f) ==
    IF kfetch[f].pc = "get" THEN kfetch'[f].calls \ kfetch[f].calls ELSE kfetch'[f].calls
PageAt(l, offset) ==
    l.pages[CHOOSE i \in DOMAIN l.pages : ItemsBefore(l.pages, i) = offset]

\* C35: the cache is keyed by identifier, version (or latest) and offset
\* only: whatever its filter and page size, and whichever filter and page
\* size wrote the file, a fetch that looks a page up requests it only when no
\* file of that key exists, and otherwise takes the file's page.
C35_KeyIgnoresFilterAndSize ==
    [][\A f \in DOMAIN kfetch' :
           kfetch'[f] # kfetch[f] =>
               LET l == kfetch'[f]
               IN  /\ \A o \in NewCalls(f) :
                          CacheKey(l.query.oid, l.query.version, o) \notin DOMAIN kcache'
                   /\ \A o \in NewHits(f) :
                          /\ CacheKey(l.query.oid, l.query.version, o) \in DOMAIN kcache'
                          /\ PageAt(l, o) = kcache'[CacheKey(l.query.oid, l.query.version, o)]]_vars

\* C35 witness: a fetch with a filter returned, without any request, pages
\* that an unfiltered fetch had cached.
C35_FilteredServedUnfiltered ==
    \E f \in DOMAIN kfetch :
        /\ kfetch[f].pc = "done"
        /\ kfetch[f].query.filter = "bio"
        /\ kfetch[f].calls = {}
        /\ \E i \in DOMAIN kfetch[f].pages :
               "aspirin" \in Range(kfetch[f].pages[i].contains)

\* The version a resource carries itself: its version, else its expansion
\* identifier, else none.
OwnVersion(r) == OrElse(r.version, r.identifier)

\* The label the fallback order gives for a job with the merged resource
\* expRes and the definition defRes (NullRes: not fetched).
FallbackLabel(defRes, expRes) ==
    OrElse(OwnVersion(expRes),
           OrElse(IF defRes = NullRes THEN "" ELSE OwnVersion(defRes),
                  OrElse(opts.version, "unknown")))

\* C36: the expanded output of a job is named with the merged resource's own
\* version or expansion identifier, else with the label of the definition
\* fetched in the same job, else with the requested version, else 'unknown'.
C36_VersionFallback ==
    \A i \in Positions :
        (results[i].set /\ results[i].expRes # NullRes) =>
            /\ results[i].version = FallbackLabel(results[i].defRes, results[i].expRes)
            /\ FileName(results[i].oid, FallbackLabel(results[i].defRes, results[i].expRes),
                        "expanded") \in DOMAIN files

\* The identifier of position i is given at no other position.
OnlyOnce(i) == \A j \in Positions : ids[j] = ids[i] => j = i

\* C37: a job that ended with an error has no output: its result holds no
\* definition and no expansion resource, and no output file of its
\* identifier exists.
C37_FailedJobNoOutput ==
    \A i \in Positions :
        (results[i].set /\ (i - 1) \in raised) =>
            /\ results[i].defRes = NullRes
            /\ results[i].expRes = NullRes
            /\ OnlyOnce(i) =>
                   \A f \in DOMAIN files : f[1] # normalizeVsacId(ids[i])

\* The module ids a fresh load of the modules directory registers.
LoadedIds(d) == {d[f].id : f \in {g \in DOMAIN d : d[g].shape = "module"}}

\* C38: the registry agrees with the modules directory: the ids in the
\* registry are the ids of the module-file map and the ids a fresh load of
\* the directory would register, so that a deleted module does not come back.
C38_RegistryAgreesWithDirectory ==
    /\ DOMAIN registry = DOMAIN moduleFiles
    /\ DOMAIN registry = LoadedIds(dir)

\* C39: enabling or disabling a module sets the flag of the registered
\* module and nothing else: its file and the module-file map are as before;
\* a reload of the module registers the document of its file again, flag
\* included.
C39_FlagOnlyInMemory ==
    [][/\ (reply'.op \in {"enable", "disable"} /\ reply'.status = 200) =>
              /\ registry' = [registry EXCEPT ![reply'.id].enabled = (reply'.op = "enable")]
              /\ UNCHANGED <<dir, moduleFiles>>
       /\ (reply'.op = "reload" /\ reply'.status = 200) =>
              /\ registry'[reply'.id] = dir[moduleFiles[reply'.id]]
              /\ UNCHANGED dir]_vars

\* C39 witness: GET /modules/:id returned a document whose flag is not the
\* one the registry holds, and lists, for that module.
C39_FlagsDiffer ==
    /\ reply.op = "get"
    /\ reply.status = 200
    /\ reply.doc.enabled
    /\ ~registry[reply.id].enabled

====
